---------------------------- MODULE Spec2Model ----------------------------
(***************************************************************************)
(* A model of app.py, the "Mosquito Google Trends - India" dashboard:      *)
(* the static region catalog, the cached fetch_trend, the is_picking_up    *)
(* heuristic, build_chart, and the top-to-bottom script run (selection,    *)
(* fetch loop, summary banner, charts per region).                         *)
(*                                                                         *)
(* A DataFrame is a record [iname, index, cols, data]: the index with its  *)
(* name, the column names in order, and one sequence of values per column. *)
(* Python's None is the record None.  Dates are day ordinals.  A mean is   *)
(* kept exact, as the record [num, den].                                   *)
(***************************************************************************)
EXTENDS Integers, Sequences, FiniteSets, TLC

VARIABLES
    pc,                \* position of the script / of the call under study
    clock,             \* seconds, the timer of the cache
    cache,             \* st.cache_data store of fetch_trend: key -> entry
    log,               \* history: the fetch_trend calls made, in order
    days,              \* sidebar selectbox value
    selected_regions,  \* sidebar multiselect value, in selection order
    states_to_show,    \* the flattened area list
    i,                 \* fetch loop index (0-based, as enumerate)
    all_data,          \* state name -> fetch_trend result, insertion-ordered
    banner,            \* the three st.metric values, or None
    rendered,          \* history: what the per-region loop has displayed
    df_arg,            \* the DataFrame object handed to the call under study
    df_before,         \* history: df_arg as it was when the call began
    ret,               \* the value the call under study returned
    runs               \* number of script runs started

vars == <<pc, clock, cache, log, days, selected_regions, states_to_show, i,
          all_data, banner, rendered, df_arg, df_before, ret, runs>>

None == [none |-> TRUE]

(***************************************************************************)
(* Bounds of the model.                                                    *)
(***************************************************************************)
MaxLen == 15          \* longest series handed to is_picking_up / build_chart
MaxCalls == 3         \* fetch_trend calls in one behaviour of SpecFetch
MaxClock == 3600      \* the clock stops advancing here
MaxAreas == 5         \* a run's selection flattens to at most this many areas
MaxDayChoices == 1    \* time periods offered in SpecRun, from the default on
MaxRuns == 2          \* script runs in one behaviour of SpecRun
MaxServiceCalls == 5  \* service requests in one behaviour of SpecRun

Scores == {0, 50, 55}

(***************************************************************************)
(* The static catalog.                                                     *)
(***************************************************************************)
REGIONS ==
    [North |-> <<"Delhi", "Uttar Pradesh", "Uttarakhand", "Himachal Pradesh",
                 "Punjab", "Haryana", "Jammu and Kashmir", "Rajasthan">>,
     East |-> <<"West Bengal", "Bihar", "Jharkhand", "Odisha",
                "Assam", "Meghalaya", "Manipur", "Mizoram",
                "Nagaland", "Tripura", "Arunachal Pradesh", "Sikkim">>,
     West |-> <<"Maharashtra", "Gujarat", "Goa">>,
     Central |-> <<"Madhya Pradesh", "Chhattisgarh">>,
     South |-> <<"Karnataka", "Tamil Nadu", "Andhra Pradesh", "Telangana",
                 "Kerala">>]

REGION_KEYS == <<"North", "East", "West", "Central", "South">>

GEO_CODES ==
    [s \in {"Andhra Pradesh", "Arunachal Pradesh", "Assam", "Bihar",
            "Chhattisgarh", "Goa", "Gujarat", "Haryana", "Himachal Pradesh",
            "Jammu and Kashmir", "Jharkhand", "Karnataka", "Kerala",
            "Madhya Pradesh", "Maharashtra", "Manipur", "Meghalaya",
            "Mizoram", "Nagaland", "Odisha", "Punjab", "Rajasthan", "Sikkim",
            "Tamil Nadu", "Telangana", "Tripura", "Uttar Pradesh",
            "Uttarakhand", "West Bengal", "Delhi"} |->
        CASE s = "Andhra Pradesh" -> "IN-AP"
          [] s = "Arunachal Pradesh" -> "IN-AR"
          [] s = "Assam" -> "IN-AS"
          [] s = "Bihar" -> "IN-BR"
          [] s = "Chhattisgarh" -> "IN-CT"
          [] s = "Goa" -> "IN-GA"
          [] s = "Gujarat" -> "IN-GJ"
          [] s = "Haryana" -> "IN-HR"
          [] s = "Himachal Pradesh" -> "IN-HP"
          [] s = "Jammu and Kashmir" -> "IN-JK"
          [] s = "Jharkhand" -> "IN-JH"
          [] s = "Karnataka" -> "IN-KA"
          [] s = "Kerala" -> "IN-KL"
          [] s = "Madhya Pradesh" -> "IN-MP"
          [] s = "Maharashtra" -> "IN-MH"
          [] s = "Manipur" -> "IN-MN"
          [] s = "Meghalaya" -> "IN-ML"
          [] s = "Mizoram" -> "IN-MZ"
          [] s = "Nagaland" -> "IN-NL"
          [] s = "Odisha" -> "IN-OR"
          [] s = "Punjab" -> "IN-PB"
          [] s = "Rajasthan" -> "IN-RJ"
          [] s = "Sikkim" -> "IN-SK"
          [] s = "Tamil Nadu" -> "IN-TN"
          [] s = "Telangana" -> "IN-TG"
          [] s = "Tripura" -> "IN-TR"
          [] s = "Uttar Pradesh" -> "IN-UP"
          [] s = "Uttarakhand" -> "IN-UT"
          [] s = "West Bengal" -> "IN-WB"
          [] s = "Delhi" -> "IN-DL"]

\* GEO_CODES.get(state); for a name the mapping lacks it gives None, which
\* the test "if geo" takes as it takes the empty string, written "" here
GeoCodesGet(state) ==
    IF state \in DOMAIN GEO_CODES THEN GEO_CODES[state] ELSE ""

KEYWORD == "mosquito"

(***************************************************************************)
(* Sequences and exact means.                                              *)
(***************************************************************************)
Range(s) == {s[j] : j \in DOMAIN s}

RECURSIVE SeqSum(_)
SeqSum(s) == IF s = <<>> THEN 0 ELSE Head(s) + SeqSum(Tail(s))

\* Series.mean() of a non-empty series of integers
Mean(s) == [num |-> SeqSum(s), den |-> Len(s)]

\* a > b for two exact fractions with positive denominators
FracGt(a, b) == a.num * b.den > b.num * a.den

\* .iloc[:n]
ILocHead(s, n) == SubSeq(s, 1, IF n < Len(s) THEN n ELSE Len(s))

\* .iloc[-n:]
ILocTail(s, n) == SubSeq(s, IF Len(s) > n THEN Len(s) - n + 1 ELSE 1, Len(s))

\* len(df): the number of rows
DfLen(df) == Len(df.index)

(***************************************************************************)
(* is_picking_up                                                           *)
(***************************************************************************)
WINDOW == 7
MIN_POINTS == 10
\* the factor 1.1, as GROWTH_NUM / GROWTH_DEN
GROWTH_NUM == 11
GROWTH_DEN == 10

\* first * 1.1
TimesGrowth(m) == [num |-> m.num * GROWTH_NUM, den |-> m.den * GROWTH_DEN]

\* variant: last >= first * 1.1
ExceedsNotStrict(last, first) == ~ FracGt(TimesGrowth(first), last)

\* last > first * 1.1
Exceeds(last, first) == FracGt(last, TimesGrowth(first))

\* variant: the length test at the window size, len(df) < 7
TooShortAtWindow(df) == df = None \/ DfLen(df) < WINDOW

\* df is None or len(df) < 10
TooShort(df) == df = None \/ DfLen(df) < MIN_POINTS

is_picking_up(df) ==
    IF TooShort(df)
    THEN FALSE
    ELSE LET first == Mean(ILocHead(df.data["interest"], WINDOW))
             last == Mean(ILocTail(df.data["interest"], WINDOW))
         IN  Exceeds(last, first)

trend_badge(picking) ==
    IF picking THEN "Picking Up" ELSE "Stable / Declining"

(***************************************************************************)
(* The external trends service, as pytrends presents it.  One request      *)
(* either raises, in one of the three client calls fetch_trend makes, or   *)
(* returns a frame: pd.DataFrame() when there is no data, else a frame     *)
(* indexed by date with one column per keyword and an isPartial column.    *)
(***************************************************************************)
NoFrame == [iname |-> "", index |-> <<>>, cols |-> <<>>, data |-> <<>>]

TrendsFrame(scores) ==
    [iname |-> "date", index |-> [j \in 1..Len(scores) |-> j],
     cols |-> <<KEYWORD, "isPartial">>,
     data |-> [c \in {KEYWORD, "isPartial"} |->
                  IF c = KEYWORD THEN scores
                  ELSE [j \in 1..Len(scores) |-> FALSE]]]

\* a frame that lacks the keyword column
OtherFrame ==
    [iname |-> "date", index |-> <<1>>, cols |-> <<"isPartial">>,
     data |-> [isPartial |-> <<FALSE>>]]

Flat14 == [j \in 1..14 |-> 50]
Rising14 == [j \in 1..14 |-> IF j <= 7 THEN 50 ELSE 56]

Raises ==
    {[kind |-> "raise", at |-> a] :
        a \in {"TrendReq", "build_payload", "interest_over_time"}}

Returns(frames) == {[kind |-> "ok", df |-> f] : f \in frames}

ServiceResponses ==
    Raises \cup Returns({NoFrame, TrendsFrame(<<>>), OtherFrame,
                         TrendsFrame(<<40, 60>>), TrendsFrame(Rising14)})

(***************************************************************************)
(* DataFrame operations used by fetch_trend.                               *)
(***************************************************************************)
\* df.empty: some axis has length 0
DfEmpty(df) == Len(df.index) = 0 \/ Len(df.cols) = 0

\* df[[c1, ...]]: the listed columns, in the listed order
DfSelect(df, names) ==
    [iname |-> df.iname, index |-> df.index, cols |-> names,
     data |-> [c \in Range(names) |-> df.data[c]]]

\* df.reset_index(): the index becomes the first column, under its name
DfResetIndex(df) ==
    LET name == IF df.iname = "" THEN "index" ELSE df.iname
    IN  [iname |-> "", index |-> [j \in 1..Len(df.index) |-> j - 1],
         cols |-> <<name>> \o df.cols,
         data |-> [c \in {name} \cup Range(df.cols) |->
                      IF c = name THEN df.index ELSE df.data[c]]]

\* df.columns = names: the columns renamed by position
DfSetColumns(df, names) ==
    [iname |-> df.iname, index |-> df.index, cols |-> names,
     data |-> [c \in Range(names) |->
                  df.data[df.cols[CHOOSE j \in DOMAIN names : names[j] = c]]]]

(***************************************************************************)
(* fetch_trend: the body, then the function as st.cache_data decorates it. *)
(***************************************************************************)
TTL == 3600

\* variant: the body without the df.empty test
FetchTrendNoEmptyCheck(resp) ==
    IF resp.kind = "raise" THEN None
    ELSE IF KEYWORD \notin Range(resp.df.cols) THEN None
    ELSE DfSetColumns(DfResetIndex(DfSelect(resp.df, <<KEYWORD>>)),
                      <<"date", "interest">>)

\* the body of fetch_trend, given what the service does with the request
FetchTrendBody(resp) ==
    IF resp.kind = "raise" THEN None                        \* except Exception
    ELSE IF DfEmpty(resp.df) THEN None
    ELSE IF KEYWORD \notin Range(resp.df.cols) THEN None     \* KeyError
    ELSE LET one == DfResetIndex(DfSelect(resp.df, <<KEYWORD>>))
         IN  IF Len(one.cols) # 2 THEN None                 \* ValueError
             ELSE DfSetColumns(one, <<"date", "interest">>)

\* timeframe: "<start> <end>", each date a day ordinal
Timeframe(today, d) == <<today - d, today>>

Today(now) == 20000 + (now \div 86400)

CacheKey(geo_code, timeframe) == <<geo_code, timeframe>>

\* a stored entry is reused while the timer is before its expiry
CacheHit(c, k, now) == k \in DOMAIN c /\ now < c[k].expires

\* variant: an entry that is stale as soon as it is stored
CacheStoreNoTtl(c, k, v, resp, now) ==
    [kk \in DOMAIN c \cup {k} |->
        IF kk = k THEN [value |-> v, expires |-> now, resp |-> resp]
        ELSE c[kk]]

\* variant: a None result is not stored
CacheStoreSkipNone(c, k, v, resp, now) ==
    IF v = None THEN c
    ELSE [kk \in DOMAIN c \cup {k} |->
             IF kk = k THEN [value |-> v, expires |-> now + TTL, resp |-> resp]
             ELSE c[kk]]

\* the returned value is stored under the key, None included, for ttl
\* seconds (resp is history: the response the value was computed from)
CacheStore(c, k, v, resp, now) ==
    [kk \in DOMAIN c \cup {k} |->
        IF kk = k THEN [value |-> v, expires |-> now + TTL, resp |-> resp]
        ELSE c[kk]]

\* what the service may answer to a call of fetch_trend: nothing on a hit
NoCall == [kind |-> "nocall"]

Answers(c, k, now, responses) ==
    IF CacheHit(c, k, now) THEN {NoCall} ELSE responses

\* fetch_trend(geo_code, timeframe) at time now with cache c, resp being
\* the service's answer: the value returned, the cache afterwards, and
\* whether the service was invoked
fetch_trend(c, now, geo_code, timeframe, resp) ==
    LET k == CacheKey(geo_code, timeframe)
    IN  IF CacheHit(c, k, now)
        THEN [value |-> c[k].value, cache |-> c, called |-> FALSE]
        ELSE LET v == FetchTrendBody(resp)
             IN  [value |-> v, cache |-> CacheStore(c, k, v, resp, now),
                  called |-> TRUE]

(***************************************************************************)
(* build_chart                                                             *)
(***************************************************************************)
ROLLING_WINDOW == 5

\* s.rolling(5, min_periods=1).mean(): the mean of the last 5 values up to
\* each position, of fewer at the start
RollingMean(s) ==
    [j \in 1..Len(s) |->
        Mean(SubSeq(s, IF j > ROLLING_WINDOW THEN j - ROLLING_WINDOW + 1 ELSE 1,
                    j))]

\* df[name] = values: a new column goes last, an existing one is replaced
DfAssign(df, name, values) ==
    [iname |-> df.iname, index |-> df.index,
     cols |-> IF name \in Range(df.cols) THEN df.cols
              ELSE Append(df.cols, name),
     data |-> [c \in Range(df.cols) \cup {name} |->
                  IF c = name THEN values ELSE df.data[c]]]

\* variant: the smoothing also written over the interest column
WithRollingSmoothed(df) ==
    LET smooth == RollingMean(df.data["interest"])
        whole == [j \in DOMAIN smooth |-> smooth[j].num \div smooth[j].den]
    IN  DfAssign(DfAssign(df, "interest", whole), "rolling", smooth)

\* df["rolling"] = df["interest"].rolling(5, min_periods=1).mean()
WithRolling(df) == DfAssign(df, "rolling", RollingMean(df.data["interest"]))

\* the figure returned, and df as the call leaves it
build_chart(df, state, picking) ==
    LET color == IF picking THEN "#e74c3c" ELSE "#3498db"
        after == WithRolling(df)
    IN  [fig |->
            [traces |->
                <<[x |-> df.data["date"], y |-> df.data["interest"],
                   mode |-> "lines+markers", color |-> color, dash |-> "solid",
                   name |-> state],
                  [x |-> after.data["date"], y |-> after.data["rolling"],
                   mode |-> "lines", color |-> color, dash |-> "dot",
                   name |-> "7-day avg"]>>,
             title |-> state, height |-> 220, showlegend |-> FALSE,
             yrange |-> <<0, 105>>],
         df |-> after]

(***************************************************************************)
(* The script: sidebar, guard, flattening, fetch loop, banner, charts.     *)
(***************************************************************************)
DAYS_OPTIONS == <<7, 14, 30, 60, 90>>
DEFAULT_DAYS_INDEX == 2

\* variant: the guard never fires
NoGuard(sel) == FALSE

\* not selected_regions
NoSelection(sel) == Len(sel) = 0

\* variant: the selected regions taken in catalog order
FlattenCatalogOrder(sel) ==
    LET Keep(keys) == SelectSeq(keys, LAMBDA r : r \in Range(sel))
        RECURSIVE Cat(_)
        Cat(keys) == IF keys = <<>> THEN <<>>
                     ELSE REGIONS[Head(keys)] \o Cat(Tail(keys))
    IN  Cat(Keep(REGION_KEYS))

\* states_to_show: for r in selected_regions: extend(REGIONS[r])
RECURSIVE Flatten(_)
Flatten(sel) ==
    IF sel = <<>> THEN <<>> ELSE REGIONS[Head(sel)] \o Flatten(Tail(sel))

\* all_data, a dict in insertion order: a sequence of [k, v]
DictHas(d, k) == \E j \in DOMAIN d : d[j].k = k

\* d.get(k)
DictGet(d, k) ==
    IF DictHas(d, k) THEN d[CHOOSE j \in DOMAIN d : d[j].k = k].v ELSE None

\* d[k] = v
DictSet(d, k, v) ==
    IF DictHas(d, k)
    THEN [j \in DOMAIN d |-> IF d[j].k = k THEN [k |-> k, v |-> v] ELSE d[j]]
    ELSE Append(d, [k |-> k, v |-> v])

Keys(items) == [j \in DOMAIN items |-> items[j].k]

\* variant: the loop ends at the first fetch that returns None
LoopStopsOnFailure(j, n, v) == j < n /\ v # None

\* the for loop over states_to_show goes on while areas remain, whatever
\* the last fetch returned
LoopContinues(j, n, v) == j < n

picking_states(d) == Keys(SelectSeq(d, LAMBDA e : is_picking_up(e.v)))

\* variant: the comprehension without "d is not None"
StableStatesNoNoneCheck(d) ==
    Keys(SelectSeq(d, LAMBDA e : ~ is_picking_up(e.v)))

stable_states(d) ==
    Keys(SelectSeq(d, LAMBDA e : e.v # None /\ ~ is_picking_up(e.v)))

no_data_states(d) == Keys(SelectSeq(d, LAMBDA e : e.v = None))

\* one region's block of the page: a chart and a badge per state with
\* data, a warning per state without
RegionBlock(region, d) ==
    LET region_states == SelectSeq(REGIONS[region], LAMBDA s : DictHas(d, s))
    IN  [region |-> region,
         items |->
            [idx \in DOMAIN region_states |->
                LET state == region_states[idx]
                    df == DictGet(d, state)
                    pick == is_picking_up(df)
                IN  IF df # None /\ ~ DfEmpty(df)
                    THEN [state |-> state, col |-> (idx - 1) % 2,
                          fig |-> build_chart(df, state, pick).fig,
                          caption |-> trend_badge(pick)]
                    ELSE [state |-> state, col |-> (idx - 1) % 2,
                          fig |-> None, caption |-> "No data"]]]

\* all_data once the region loop has charted the states of sel: build_chart
\* has added its column to every frame it was handed
AfterCharts(d, sel) ==
    [j \in DOMAIN d |->
        IF /\ \E r \in Range(sel) : d[j].k \in Range(REGIONS[r])
           /\ d[j].v # None
           /\ ~ DfEmpty(d[j].v)
        THEN [k |-> d[j].k,
              v |-> build_chart(d[j].v, d[j].k, is_picking_up(d[j].v)).df]
        ELSE d[j]]

(***************************************************************************)
(* The series handed to the calls under study: None, and every             *)
(* (date, interest) table of at most MaxLen rows whose scores form at most *)
(* three constant stretches.                                               *)
(***************************************************************************)
Stretch(n, k1, k2, a, b, c) ==
    [j \in 1..n |-> IF j <= k1 THEN a ELSE IF j <= k2 THEN b ELSE c]

SeriesDf(scores) ==
    [iname |-> "", index |-> [j \in 1..Len(scores) |-> j - 1],
     cols |-> <<"date", "interest">>,
     data |-> [date |-> [j \in 1..Len(scores) |-> j], interest |-> scores]]

SeriesInputs ==
    {SeriesDf(Stretch(n, k1, k2, a, b, c)) :
        n \in 0..MaxLen, k1 \in 0..MaxLen, k2 \in 0..MaxLen,
        a \in Scores, b \in Scores, c \in Scores}

Idle ==
    /\ clock = 0
    /\ cache = <<>>
    /\ log = <<>>
    /\ days = 30
    /\ selected_regions = <<>>
    /\ states_to_show = <<>>
    /\ i = 0
    /\ all_data = <<>>
    /\ banner = None
    /\ rendered = <<>>
    /\ runs = 0

(***************************************************************************)
(* SpecFetch: any sequence of at most MaxCalls calls of fetch_trend, on a  *)
(* few keys, with time passing between the calls.                          *)
(***************************************************************************)
TickSteps == {1800, 3600}

FetchKeys ==
    {CacheKey("IN-KL", Timeframe(Today(0), 30)),
     CacheKey("IN-KL", Timeframe(Today(0), 7)),
     CacheKey("IN-KA", Timeframe(Today(0), 30))}

InitFetch ==
    /\ Idle
    /\ pc = "fetching"
    /\ df_arg = None
    /\ df_before = None
    /\ ret = None

Call ==
    /\ pc = "fetching"
    /\ Len(log) < MaxCalls
    /\ \E k \in FetchKeys :
         \E resp \in Answers(cache, k, clock, ServiceResponses) :
            LET r == fetch_trend(cache, clock, k[1], k[2], resp)
            IN  /\ ret' = r.value
                /\ cache' = r.cache
                /\ log' = Append(log, [key |-> k, at |-> clock,
                                       called |-> r.called, resp |-> resp,
                                       result |-> r.value])
    /\ UNCHANGED <<pc, clock, days, selected_regions, states_to_show, i,
                   all_data, banner, rendered, df_arg, df_before, runs>>

Tick ==
    /\ pc = "fetching"
    /\ \E d \in TickSteps :
         /\ clock + d <= MaxClock
         /\ clock' = clock + d
    /\ UNCHANGED <<pc, cache, log, days, selected_regions, states_to_show, i,
                   all_data, banner, rendered, df_arg, df_before, ret, runs>>

NextFetch == Call \/ Tick

SpecFetch == InitFetch /\ [][NextFetch]_vars

SameKeyPairs ==
    {p \in (DOMAIN log) \X (DOMAIN log) :
        p[1] < p[2] /\ log[p[1]].key = log[p[2]].key}

\* C3: of two fetch_trend calls with the same (geo_code, timeframe), the
\* second made less than TTL seconds after the first, at most one invokes
\* the service; when the first one stored the entry, the second returns
\* the value the first returned.
C3_OneServiceCallWithinTtl ==
    \A p \in SameKeyPairs :
        LET a == log[p[1]]
            b == log[p[2]]
        IN  b.at < a.at + TTL =>
                /\ ~ (a.called /\ b.called)
                /\ a.called => b.result = a.result

\* a call that fetched a series, then a later call within the TTL served
\* from the cache
C3_Witness ==
    \E p \in SameKeyPairs :
        LET a == log[p[1]]
            b == log[p[2]]
        IN  /\ a.called
            /\ a.result # None
            /\ a.at < b.at
            /\ b.at < a.at + TTL
            /\ ~ b.called
            /\ b.result = a.result

\* C4: after a call for a key has failed and returned None, every later
\* call for that key made before the entry expires returns None without
\* invoking the service, and the first call for that key at or after the
\* expiry invokes the service again.
C4_NoRetryUntilExpiry ==
    \A p \in SameKeyPairs :
        LET a == log[p[1]]
            b == log[p[2]]
        IN  (a.called /\ a.result = None) =>
                /\ b.at < a.at + TTL => (~ b.called /\ b.result = None)
                /\ ( /\ b.at >= a.at + TTL
                     /\ \A m \in (p[1] + 1)..(p[2] - 1) :
                            log[m].key = a.key => log[m].at < a.at + TTL )
                   => b.called

\* a failed call, a later call answered None from the cache, and a fresh
\* service call once the entry has expired
C4_Witness ==
    /\ Len(log) = 3
    /\ log[1].key = log[2].key /\ log[2].key = log[3].key
    /\ log[1].called /\ log[1].resp.kind = "raise" /\ log[1].result = None
    /\ log[1].at < log[2].at /\ log[2].at < log[1].at + TTL
    /\ ~ log[2].called /\ log[2].result = None
    /\ log[3].at >= log[1].at + TTL
    /\ log[3].called

IsSeriesFrame(v) ==
    /\ v.cols = <<"date", "interest">>
    /\ DOMAIN v.data = {"date", "interest"}
    /\ Len(v.index) > 0
    /\ Len(v.data["date"]) = Len(v.index)
    /\ Len(v.data["interest"]) = Len(v.index)

\* C5: fetch_trend always returns: None when the client raised or returned
\* an empty frame, and otherwise None or a non-empty table whose columns
\* are exactly (date, interest).
C5_AbsentOrSeries ==
    /\ ret = None \/ IsSeriesFrame(ret)
    /\ \A n \in DOMAIN log :
          /\ log[n].result = None \/ IsSeriesFrame(log[n].result)
          /\ log[n].called =>
                /\ log[n].resp.kind = "raise" => log[n].result = None
                /\ (log[n].resp.kind = "ok" /\ DfEmpty(log[n].resp.df))
                       => log[n].result = None
                /\ (log[n].resp.kind = "ok" /\ ~ DfEmpty(log[n].resp.df)
                        /\ KEYWORD \in Range(log[n].resp.df.cols))
                       => /\ IsSeriesFrame(log[n].result)
                          /\ log[n].result.data["date"] = log[n].resp.df.index
                          /\ log[n].result.data["interest"] =
                                 log[n].resp.df.data[KEYWORD]

\* one call where the client raised, one where it returned a frame with
\* columns but no rows, and one that returned data
C5_Witness ==
    \E x, y, z \in DOMAIN log :
        /\ log[x].called /\ log[x].resp.kind = "raise" /\ log[x].result = None
        /\ log[y].called /\ log[y].resp.kind = "ok"
        /\ log[y].resp.df.cols # <<>> /\ DfEmpty(log[y].resp.df)
        /\ log[y].result = None
        /\ log[z].called /\ log[z].result # None

(***************************************************************************)
(* SpecRun: at most MaxRuns runs of the script, top to bottom, each with   *)
(* its own sidebar values; the cache lives on from one run to the next.    *)
(* In a run, log holds the fetch_trend calls the loop has made.            *)
(***************************************************************************)
RunResponses ==
    {[kind |-> "raise", at |-> "interest_over_time"]}
        \cup Returns({TrendsFrame(Flat14), TrendsFrame(Rising14)})

Injective(s) == \A a, b \in DOMAIN s : s[a] = s[b] => a = b

\* what the multiselect can hold: distinct regions, in the order picked
Selections ==
    {s \in UNION {[1..n -> Range(REGION_KEYS)] : n \in 0..Len(REGION_KEYS)} :
        Injective(s) /\ Len(Flatten(s)) <= MaxAreas}

DayChoices ==
    {DAYS_OPTIONS[((DEFAULT_DAYS_INDEX + j) % Len(DAYS_OPTIONS)) + 1] :
        j \in 0..(MaxDayChoices - 1)}

\* the requests made so far: no entry expires in SpecRun, where the clock
\* stands still, so each request has left one entry
ServiceCallsMade == Cardinality(DOMAIN cache)

InitRun ==
    /\ Idle
    /\ pc = "start"
    /\ df_arg = None
    /\ df_before = None
    /\ ret = None

\* a run begins: the widgets are read, the guard stops the run or the
\* area list is built
Start ==
    /\ pc \in {"start", "done", "stopped"}
    /\ runs < MaxRuns
    /\ runs' = runs + 1
    /\ \E d \in DayChoices, sel \in Selections :
         /\ days' = d
         /\ selected_regions' = sel
         /\ IF NoSelection(sel)
            THEN /\ pc' = "stopped"
                 /\ states_to_show' = <<>>
            ELSE /\ pc' = IF Flatten(sel) = <<>> THEN "summary" ELSE "fetch"
                 /\ states_to_show' = Flatten(sel)
    /\ i' = 0
    /\ all_data' = <<>>
    /\ log' = <<>>
    /\ banner' = None
    /\ rendered' = <<>>
    /\ UNCHANGED <<clock, cache, df_arg, df_before, ret>>

\* one iteration of the fetch loop
FetchStep ==
    /\ pc = "fetch"
    /\ LET state == states_to_show[i + 1]
           geo == GeoCodesGet(state)
           timeframe == Timeframe(Today(clock), days)
       IN  IF geo # ""
           THEN \E resp \in Answers(cache, CacheKey(geo, timeframe), clock,
                                    RunResponses) :
                   LET r == fetch_trend(cache, clock, geo, timeframe, resp)
                   IN  /\ r.called => ServiceCallsMade < MaxServiceCalls
                       /\ all_data' = DictSet(all_data, state, r.value)
                       /\ cache' = r.cache
                       /\ log' = Append(log,
                              [state |-> state,
                               key |-> CacheKey(geo, timeframe),
                               called |-> r.called, resp |-> resp,
                               result |-> r.value])
                       /\ pc' = IF LoopContinues(i + 1, Len(states_to_show),
                                                 r.value)
                                THEN "fetch" ELSE "summary"
           ELSE /\ UNCHANGED <<all_data, cache, log>>
                /\ pc' = IF LoopContinues(i + 1, Len(states_to_show), None)
                         THEN "fetch" ELSE "summary"
    /\ i' = i + 1
    /\ UNCHANGED <<clock, days, selected_regions, states_to_show, banner,
                   rendered, df_arg, df_before, ret, runs>>

\* the summary banner
Summary ==
    /\ pc = "summary"
    /\ banner' = [picking_up |-> Len(picking_states(all_data)),
                  stable |-> Len(stable_states(all_data)),
                  no_data |-> Len(no_data_states(all_data))]
    /\ pc' = "charts"
    /\ UNCHANGED <<clock, cache, log, days, selected_regions, states_to_show,
                   i, all_data, rendered, df_arg, df_before, ret, runs>>

\* the charts, region by region
Charts ==
    /\ pc = "charts"
    /\ rendered' = [r \in DOMAIN selected_regions |->
                       RegionBlock(selected_regions[r], all_data)]
    /\ all_data' = AfterCharts(all_data, selected_regions)
    /\ pc' = "done"
    /\ UNCHANGED <<clock, cache, log, days, selected_regions, states_to_show,
                   i, banner, df_arg, df_before, ret, runs>>

NextRun == Start \/ FetchStep \/ Summary \/ Charts

SpecRun == InitRun /\ [][NextRun]_vars

InLoopOrAfter == pc \in {"fetch", "summary", "charts", "done"}

\* the result the loop stored for each area, from the cache entry of the
\* area's key: the body of fetch_trend applied to the service's response
\* to the one request made for that key
FromOwnResponse(j) ==
    LET k == CacheKey(GEO_CODES[states_to_show[j]],
                      Timeframe(Today(clock), days))
    IN  /\ k \in DOMAIN cache
        /\ log[j].key = k
        /\ log[j].result = FetchTrendBody(cache[k].resp)
        /\ log[j].called => log[j].resp = cache[k].resp

\* C6: the loop calls fetch_trend once per area of the flattened list, in
\* list order, whatever the earlier calls returned, and what it stores for
\* an area is determined by the service's response for that area's key.
C6_FailureIsolation ==
    InLoopOrAfter =>
        /\ Len(log) = i
        /\ \A j \in 1..i :
              /\ log[j].state = states_to_show[j]
              /\ FromOwnResponse(j)
        /\ pc \in {"fetch", "summary", "charts"} =>
              all_data = [j \in 1..i |->
                             [k |-> states_to_show[j], v |-> log[j].result]]
        /\ pc = "fetch" => i < Len(states_to_show)
        /\ pc \in {"summary", "charts", "done"} => i = Len(states_to_show)

\* a run of five areas whose first fetch failed and whose later fetches
\* returned data, one of them from the cache
C6_Witness ==
    /\ pc = "charts"
    /\ Len(states_to_show) = 5
    /\ log[1].called /\ log[1].result = None
    /\ \E j \in 2..5 : log[j].called /\ log[j].result # None
    /\ \E j \in 2..5 : ~ log[j].called /\ log[j].result # None

IsAbsent(j) == log[j].result = None
IsPickingUp(j) == is_picking_up(log[j].result)
IsStable(j) == ~ IsAbsent(j) /\ ~ IsPickingUp(j)

\* C7: once the banner is computed, every area of the flattened list is in
\* exactly one tally: No Data iff its fetch returned None, Picking Up iff
\* its series classifies as picking up, Stable otherwise; the three add up
\* to the number of areas.  With a rising 14-point series for Kerala and
\* None for the other areas of South, the banner is 1, 0, 4.
C7_TalliesPartition ==
    pc \in {"charts", "done"} =>
        /\ banner.no_data = Cardinality({j \in DOMAIN log : IsAbsent(j)})
        /\ banner.picking_up =
              Cardinality({j \in DOMAIN log : IsPickingUp(j)})
        /\ banner.stable = Cardinality({j \in DOMAIN log : IsStable(j)})
        /\ banner.picking_up + banner.stable + banner.no_data
               = Len(states_to_show)
        /\ ( /\ selected_regions = <<"South">>
             /\ \A j \in 1..Len(log) :
                   log[j].result =
                       IF log[j].state = "Kerala"
                       THEN FetchTrendBody([kind |-> "ok",
                                            df |-> TrendsFrame(Rising14)])
                       ELSE None )
           => banner = [picking_up |-> 1, stable |-> 0, no_data |-> 4]

\* the South run with a rising series for Kerala and nothing for the rest
C7_Witness ==
    /\ pc = "charts"
    /\ selected_regions = <<"South">>
    /\ \A j \in 1..Len(log) :
          (log[j].state = "Kerala") <=> (log[j].result # None)
    /\ banner = [picking_up |-> 1, stable |-> 0, no_data |-> 4]

\* where region number r of the selection starts in the flattened list
RECURSIVE Offset(_, _)
Offset(sel, r) ==
    IF r = 1 THEN 0 ELSE Offset(sel, r - 1) + Len(REGIONS[sel[r - 1]])

\* C8: for a non-empty selection the flattened list is REGIONS[r] for each
\* selected r, one after the other in selection order, each in its
\* declared order; for the selection South it is REGIONS["South"].
C8_FlattenInSelectionOrder ==
    (pc \in {"fetch", "summary", "charts", "done"}) =>
        /\ selected_regions # <<>>
        /\ Len(states_to_show) =
               Offset(selected_regions, Len(selected_regions))
               + Len(REGIONS[selected_regions[Len(selected_regions)]])
        /\ \A r \in DOMAIN selected_regions :
              \A n \in DOMAIN REGIONS[selected_regions[r]] :
                 states_to_show[Offset(selected_regions, r) + n]
                     = REGIONS[selected_regions[r]][n]
        /\ selected_regions = <<"South">> =>
              states_to_show = <<"Karnataka", "Tamil Nadu", "Andhra Pradesh",
                                 "Telangana", "Kerala">>

\* Central picked before West: against the catalog's order
C8_Witness ==
    /\ pc = "fetch"
    /\ selected_regions = <<"Central", "West">>
    /\ states_to_show = <<"Madhya Pradesh", "Chhattisgarh", "Maharashtra",
                          "Gujarat", "Goa">>

\* C9: a run with nothing selected stops at the guard: it calls fetch_trend
\* for nothing, leaves the cache as it found it, and shows no banner and
\* no chart.
C9_EmptySelectionHalts ==
    /\ (runs > 0 /\ selected_regions = <<>>) =>
          /\ pc = "stopped"
          /\ log = <<>>
          /\ all_data = <<>>
          /\ banner = None
          /\ rendered = <<>>
    /\ pc = "stopped" => selected_regions = <<>>

\* a second run stopped at the guard, with the first run's cache left
C9_Witness ==
    /\ pc = "stopped"
    /\ runs = 2
    /\ selected_regions = <<>>
    /\ cache # <<>>
    /\ banner = None

(***************************************************************************)
(* SpecClassify: one call of is_picking_up on any of the inputs.           *)
(***************************************************************************)
InitClassify ==
    /\ Idle
    /\ pc = "call"
    /\ df_arg \in SeriesInputs \cup {None}
    /\ df_before = df_arg
    /\ ret = None

Classify ==
    /\ pc = "call"
    /\ ret' = is_picking_up(df_arg)
    /\ pc' = "returned"
    /\ UNCHANGED <<clock, cache, log, days, selected_regions, states_to_show,
                   i, all_data, banner, rendered, df_arg, df_before, runs>>

NextClassify == Classify

SpecClassify == InitClassify /\ [][NextClassify]_vars

\* the sum of s[lo..hi], by position
RECURSIVE PosSum(_, _, _)
PosSum(s, lo, hi) == IF lo > hi THEN 0 ELSE s[hi] + PosSum(s, lo, hi - 1)

FirstSeven(df) == PosSum(df.data["interest"], 1, 7)
LastSeven(df) == PosSum(df.data["interest"], DfLen(df) - 6, DfLen(df))

C2_ShortIsStable ==
    (pc = "returned" /\ (df_arg = None \/ DfLen(df_arg) < 10)) => ret = FALSE

\* a 9-point series whose last-7 mean is far above its first-7 mean
C2_Witness ==
    /\ pc = "returned"
    /\ df_arg # None
    /\ DfLen(df_arg) = 9
    /\ 11 * FirstSeven(df_arg) < 10 * LastSeven(df_arg)
    /\ ret = FALSE


(***************************************************************************)
(* SpecChart: one call of build_chart, on any non-empty series, as the     *)
(* region loop calls it.                                                   *)
(***************************************************************************)
InitChart ==
    /\ Idle
    /\ pc = "call"
    /\ df_arg \in {d \in SeriesInputs : ~ DfEmpty(d)}
    /\ df_before = df_arg
    /\ ret = None

Chart ==
    /\ pc = "call"
    /\ LET r == build_chart(df_arg, "Kerala", is_picking_up(df_arg))
       IN  /\ ret' = r.fig
           /\ df_arg' = r.df
    /\ pc' = "charted"
    /\ UNCHANGED <<clock, cache, log, days, selected_regions, states_to_show,
                   i, all_data, banner, rendered, df_before, runs>>

NextChart == Chart

SpecChart == InitChart /\ [][NextChart]_vars

\* C10, as claimed: after build_chart the series passed to it holds the
\* same columns and values as before the call.
C10_SeriesUntouched ==
    pc = "charted" => df_arg = df_before

\* the mean of the scores at positions max(1, j - 4) .. j, as a fraction
TrailingFive(s, j) ==
    [num |-> PosSum(s, IF j - 4 > 1 THEN j - 4 ELSE 1, j),
     den |-> IF j < 5 THEN j ELSE 5]

\* C10, amended: build_chart changes the series passed to it in one way
\* only: it appends a column "rolling", the trailing 5-point mean of the
\* interest scores; the index and the date and interest columns hold the
\* same values after the call as before.
C10_OnlyRollingAdded ==
    pc = "charted" =>
        /\ df_arg.cols = Append(df_before.cols, "rolling")
        /\ df_arg.index = df_before.index
        /\ \A c \in Range(df_before.cols) : df_arg.data[c] = df_before.data[c]
        /\ Len(df_arg.data["rolling"]) = DfLen(df_before)
        /\ \A j \in 1..DfLen(df_before) :
              df_arg.data["rolling"][j]
                  = TrailingFive(df_before.data["interest"], j)

\* a charted series of more than five points that are not all equal
C10_Witness ==
    /\ pc = "charted"
    /\ DfLen(df_before) > 5
    /\ Cardinality(Range(df_before.data["interest"])) > 1
    /\ "rolling" \in Range(df_arg.cols)
    /\ "rolling" \notin Range(df_before.cols)

=============================================================================
